---- MODULE Spec2Model ----
(***************************************************************************)
(* A model of stages/03_verify.py: the brick verification pass.            *)
(*                                                                         *)
(* Text is modelled character by character: a Python str is a sequence of  *)
(* one-character strings, so that strip, split, lower, startswith and      *)
(* endswith are computed as the code computes them.                        *)
(*                                                                         *)
(* Four specifications share the module:                                   *)
(*   Spec          main(), verify_brick, record_failure (the run driver)   *)
(*   SpecAssets    run_command and get_brick_assets                        *)
(*   SpecSqlite    verify_sqlite_file, statement by statement              *)
(*   SpecDispatch  verify_asset_file                                       *)
(***************************************************************************)
EXTENDS Integers, Sequences, FiniteSets, TLC

VARIABLES
    \* ---- the file system and the process (Spec)
    catalog,        \* list/bricks.txt as main() found it: [exists, lines]
    log,            \* fail/failures.txt: [exists, lines]
    pc,             \* "idle" | "loop" | "brick" | "exit"
    brick_names,    \* main: the parsed catalog
    i,              \* main: index of the brick the for loop is at
    success_count,  \* main
    failure_count,  \* main
    exit_status,    \* process exit status; -1 while the process has not exited
    raised,         \* an exception propagated out of main()
    cleared,        \* this run removed a failure log it found (line 190)
    asset_files,    \* verify_brick: the assets of the current brick
    j,              \* verify_brick: index of the asset the for loop is at
    \* ---- what the run did (observations of Spec)
    called,         \* number of verify_brick calls made in this run
    failed_idx,     \* catalog indices whose verify_brick call returned False
    resolve_calls,  \* keys looked up in bb.assets(..) by the current call
    verify_calls,   \* format checker invocations made by the current call
    ret,            \* last verify_brick call: "none" | "true" | "false" | "raised"
    \* ---- get_brick_assets (SpecAssets)
    a_cmd,          \* what subprocess.run does: [kind, stdout]
    a_pc,           \* "call" | "returned" | "raised"
    a_ret,          \* the returned pair [ok, assets]
    \* ---- verify_sqlite_file (SpecSqlite)
    q_db,           \* the file: [openable, tables] (row count of each table)
    q_pc,           \* "connect" | "list" | "count" | "returned"
    q_conn,         \* "none" | "open" | "closed"
    q_k,            \* index of the table the for loop is at
    q_total,        \* total_rows
    q_ret,          \* the returned pair [ok, msg]
    \* ---- verify_asset_file (SpecDispatch)
    d_ref,          \* the asset reference passed as file_path
    d_pc,           \* "call" | "returned" | "raised"
    d_call,         \* the checker invocation made: <<[kind, arg]>> or <<>>
    d_ret           \* the returned ok

mainVars == <<catalog, log, pc, brick_names, i, success_count, failure_count,
              exit_status, raised, cleared, asset_files, j, called,
              failed_idx, resolve_calls, verify_calls, ret>>
assetVars == <<a_cmd, a_pc, a_ret>>
sqlVars == <<q_db, q_pc, q_conn, q_k, q_total, q_ret>>
dispVars == <<d_ref, d_pc, d_call, d_ret>>
vars == <<mainVars, assetVars, sqlVars, dispVars>>

(***************************************************************************)
(* Bounds of the model.                                                    *)
(***************************************************************************)
MaxLines == 2
MaxOut == 4
MaxTables == 3
MaxRows == 2

(***************************************************************************)
(* Python str operations.                                                  *)
(***************************************************************************)
IsSpace(c) == c \in {" ", "\n", "\t", "\r"}

RECURSIVE LStrip(_)
LStrip(s) == IF s # <<>> /\ IsSpace(Head(s)) THEN LStrip(Tail(s)) ELSE s

RECURSIVE RStrip(_)
RStrip(s) ==
    IF s # <<>> /\ IsSpace(s[Len(s)]) THEN RStrip(SubSeq(s, 1, Len(s) - 1)) ELSE s

Strip(s) == RStrip(LStrip(s))

StartsWith(s, p) == Len(p) <= Len(s) /\ SubSeq(s, 1, Len(p)) = p

EndsWith(s, p) == Len(p) <= Len(s) /\ SubSeq(s, Len(s) - Len(p) + 1, Len(s)) = p

UpperLetters ==
    <<"A", "B", "C", "D", "E", "F", "G", "H", "I", "J", "K", "L", "M",
      "N", "O", "P", "Q", "R", "S", "T", "U", "V", "W", "X", "Y", "Z">>

LowerLetters ==
    <<"a", "b", "c", "d", "e", "f", "g", "h", "i", "j", "k", "l", "m",
      "n", "o", "p", "q", "r", "s", "t", "u", "v", "w", "x", "y", "z">>

LowerChar(c) ==
    IF \E k \in DOMAIN UpperLetters : UpperLetters[k] = c
    THEN LowerLetters[CHOOSE k \in DOMAIN UpperLetters : UpperLetters[k] = c]
    ELSE c

Lower(s) == [k \in 1..Len(s) |-> LowerChar(s[k])]

RECURSIVE Split(_, _)
Split(s, sep) ==
    IF \A k \in 1..Len(s) : s[k] # sep
    THEN <<s>>
    ELSE LET k == CHOOSE n \in 1..Len(s) :
                      s[n] = sep /\ \A m \in 1..(n - 1) : s[m] # sep
         IN  <<SubSeq(s, 1, k - 1)>> \o Split(SubSeq(s, k + 1, Len(s)), sep)

RECURSIVE SelectStripped(_)
SelectStripped(lines) ==
    IF lines = <<>> THEN <<>>
    ELSE LET line == Strip(Head(lines))
         IN  (IF line # <<>> THEN <<line>> ELSE <<>>) \o SelectStripped(Tail(lines))

(***************************************************************************)
(* run_command and get_brick_assets.                                       *)
(*                                                                         *)
(* cmd is what subprocess.run does with the lookup command:                *)
(*   kind "ok"       exit status 0, cmd.stdout captured                    *)
(*   kind "nonzero"  CalledProcessError (check=True)                       *)
(*   kind "timeout"  TimeoutExpired (timeout=30)                           *)
(*   kind "oserror"  the command could not be started (FileNotFoundError,  *)
(*                   PermissionError): an OSError, which the except clause *)
(*                   of run_command does not name                          *)
(***************************************************************************)
CommandKinds == {"ok", "nonzero", "timeout", "oserror"}

ErrorMsg == <<"e", "r", "r">>

RunCommand(cmd) ==
    CASE cmd.kind = "ok" ->
             [raised |-> FALSE, success |-> TRUE, output |-> Strip(cmd.stdout)]
      [] cmd.kind \in {"nonzero", "timeout"} ->
             [raised |-> FALSE, success |-> FALSE, output |-> ErrorMsg]
      [] OTHER ->
             [raised |-> TRUE, success |-> FALSE, output |-> <<>>]

GetBrickAssets(cmd) ==
    LET r == RunCommand(cmd)
    IN  IF r.raised THEN [raised |-> TRUE, ok |-> FALSE, assets |-> <<>>]
        ELSE IF ~r.success THEN [raised |-> FALSE, ok |-> FALSE, assets |-> <<>>]
        ELSE LET found == SelectStripped(Split(r.output, "\n"))
             IN  [raised |-> FALSE, ok |-> Len(found) > 0, assets |-> found]

(***************************************************************************)
(* verify_asset_file: the choice of checker and of its argument.           *)
(***************************************************************************)
ParquetSuffix == <<".", "p", "a", "r", "q", "u", "e", "t">>
SqliteSuffixes ==
    {<<".", "s", "q", "l", "i", "t", "e">>,
     <<".", "s", "q", "l", "i", "t", "e", "3">>,
     <<".", "d", "b">>}
HdtSuffix == <<".", "h", "d", "t">>

\* brick_file = file_path.split(':')[0]
BrickFile(file_path) == Head(Split(file_path, ":"))

\* getattr(bb.assets(brick_name), brick_file) when it succeeds: the on-disk
\* path the biobricks library keeps for that key of that brick.
BrickPath(brick_name, brick_file) == <<"/">> \o brick_name \o <<"/">> \o brick_file

CheckerKind(file_path) ==
    LET file_path_lower == Lower(file_path)
    IN  IF EndsWith(file_path_lower, ParquetSuffix) THEN "parquet"
        ELSE IF \E suf \in SqliteSuffixes : EndsWith(file_path_lower, suf) THEN "sqlite"
        ELSE IF EndsWith(file_path_lower, HdtSuffix) THEN "hdt"
        ELSE "generic"

\* Mutant: every checker, the generic one too, is given the resolved path.
CheckerArg_AlwaysResolved(file_path, brick_path) == brick_path

CheckerArg(file_path, brick_path) ==
    IF CheckerKind(file_path) = "generic" THEN file_path ELSE brick_path

\* The checker invocation verify_asset_file makes once brick_path is resolved;
\* ok is what the checker returns for the file it is given.
CheckerCall(file_path, brick_name, ok) ==
    [ref |-> file_path,
     kind |-> CheckerKind(file_path),
     arg |-> CheckerArg(file_path, BrickPath(brick_name, BrickFile(file_path))),
     ok |-> ok]

(***************************************************************************)
(* main(): the catalog and the failure log.                                *)
(***************************************************************************)
\* Lines of list/bricks.txt as file iteration yields them (newline kept).
CatalogLines ==
    {<<"a", "\n">>,
     <<"b", "\n">>,
     <<" ", "\n">>,
     <<"#", "a", "\n">>,
     <<" ", "#", "a", "\n">>}

RECURSIVE SeqsUpTo(_, _)
SeqsUpTo(S, n) ==
    IF n = 0 THEN {<<>>}
    ELSE LET shorter == SeqsUpTo(S, n - 1)
         IN  shorter \cup {Append(s, x) : s \in shorter, x \in S}

Catalogs == SeqsUpTo(CatalogLines, MaxLines)

NoFile == [exists |-> FALSE, lines |-> <<>>]

\* [line.strip() for line in f if line.strip() and not line.startswith('#')]
RECURSIVE ParseCatalog(_)
ParseCatalog(lines) ==
    IF lines = <<>> THEN <<>>
    ELSE LET line == Head(lines)
         IN  (IF Strip(line) # <<>> /\ ~StartsWith(line, <<"#">>)
              THEN <<Strip(line)>> ELSE <<>>) \o ParseCatalog(Tail(lines))

\* Mutant: the name is written at the head of the file instead of appended.
RecordFailure_Prepend(file, brick_name) ==
    [exists |-> TRUE, lines |-> <<brick_name>> \o file.lines]

\* os.makedirs('fail', exist_ok=True); open('fail/failures.txt', 'a'); write
RecordFailure(file, brick_name) ==
    [exists |-> TRUE, lines |-> Append(file.lines, brick_name)]

\* Mutant: the log of the previous run is left in place.
ClearFailures_Keep(file) == file

\* if os.path.exists('fail/failures.txt'): os.remove('fail/failures.txt')
ClearFailures(file) == NoFile

\* What the lookup command prints for a brick, in the runs of Spec.
LookupOutputs ==
    {<<>>,
     <<"f", ".", "d", "b", "\n">>,
     <<"k", ":", "g", ".", "h", "d", "t", "\n", "\n", " ", "r", ".", "t", "x", "t">>}

LookupCommands ==
    [kind : CommandKinds \ {"ok"}, stdout : {<<>>}]
        \cup [kind : {"ok"}, stdout : LookupOutputs]

(***************************************************************************)
(* Spec: the run driver.  main() runs again and again on whatever catalog  *)
(* the file system holds; the failure log persists between the runs.       *)
(***************************************************************************)
InitMain ==
    /\ catalog = NoFile
    /\ log = NoFile
    /\ pc = "idle"
    /\ brick_names = <<>>
    /\ i = 0
    /\ success_count = 0
    /\ failure_count = 0
    /\ exit_status = -1
    /\ raised = FALSE
    /\ cleared = FALSE
    /\ asset_files = <<>>
    /\ j = 0
    /\ called = 0
    /\ failed_idx = <<>>
    /\ resolve_calls = <<>>
    /\ verify_calls = <<>>
    /\ ret = "none"

InitAssetsIdle == a_cmd = [kind |-> "ok", stdout |-> <<>>] /\ a_pc = "idle" /\ a_ret = <<>>

InitSqliteIdle ==
    /\ q_db = [openable |-> FALSE, tables |-> <<>>]
    /\ q_pc = "idle"
    /\ q_conn = "none"
    /\ q_k = 0
    /\ q_total = 0
    /\ q_ret = <<>>

InitDispatchIdle == d_ref = <<>> /\ d_pc = "idle" /\ d_call = <<>> /\ d_ret = FALSE

otherVars == <<assetVars, sqlVars, dispVars>>

\* A new process: nothing of the previous run's memory is left.
FreshProcess ==
    /\ success_count' = 0
    /\ failure_count' = 0
    /\ raised' = FALSE
    /\ asset_files' = <<>>
    /\ j' = 0
    /\ called' = 0
    /\ failed_idx' = <<>>
    /\ resolve_calls' = <<>>
    /\ verify_calls' = <<>>
    /\ ret' = "none"

\* Lines 183-186: list/bricks.txt is not there; sys.exit(1).
MainMissingCatalog ==
    /\ pc \in {"idle", "exit"}
    /\ catalog' = NoFile
    /\ FreshProcess
    /\ brick_names' = <<>>
    /\ i' = 0
    /\ exit_status' = 1
    /\ pc' = "exit"
    /\ cleared' = FALSE
    /\ UNCHANGED log
    /\ UNCHANGED otherVars

\* Lines 183-199: the catalog is there; clear the log, read the names.
MainStart ==
    /\ pc \in {"idle", "exit"}
    /\ \E lines \in Catalogs :
           /\ catalog' = [exists |-> TRUE, lines |-> lines]
           /\ brick_names' = ParseCatalog(lines)
    /\ log' = ClearFailures(log)
    /\ cleared' = log.exists
    /\ FreshProcess
    /\ i' = 1
    /\ exit_status' = -1
    /\ pc' = "loop"
    /\ UNCHANGED otherVars

\* An exception nobody catches leaves verify_brick and main(): the
\* interpreter prints the traceback and exits with status 1.
Uncaught ==
    /\ ret' = "raised"
    /\ raised' = TRUE
    /\ exit_status' = 1
    /\ pc' = "exit"
    /\ UNCHANGED <<catalog, log, brick_names, i, success_count, failure_count,
                   cleared, failed_idx>>

\* Mutant: main records the failure again when verify_brick returns False.
ReturnFalse_RecordsTwice ==
    /\ log' = RecordFailure(RecordFailure(log, brick_names[i]), brick_names[i])
    /\ ret' = "false"
    /\ failed_idx' = Append(failed_idx, i)
    /\ failure_count' = failure_count + 1
    /\ i' = i + 1
    /\ pc' = "loop"
    /\ UNCHANGED <<catalog, brick_names, success_count, exit_status, raised,
                   cleared>>

\* verify_brick returns False after record_failure; main counts the failure.
ReturnFalse ==
    /\ log' = RecordFailure(log, brick_names[i])
    /\ ret' = "false"
    /\ failed_idx' = Append(failed_idx, i)
    /\ failure_count' = failure_count + 1
    /\ i' = i + 1
    /\ pc' = "loop"
    /\ UNCHANGED <<catalog, brick_names, success_count, exit_status, raised,
                   cleared>>

\* Lines 201-202, 160: main calls verify_brick, which calls get_brick_assets.
BrickCalled ==
    /\ pc = "loop"
    /\ i <= Len(brick_names)
    /\ called' = called + 1
    /\ resolve_calls' = <<>>
    /\ verify_calls' = <<>>

\* Line 28: subprocess.run raises what run_command does not catch.
LookupRaises ==
    /\ BrickCalled
    /\ \E cmd \in LookupCommands : GetBrickAssets(cmd).raised
    /\ Uncaught
    /\ asset_files' = <<>>
    /\ j' = 0
    /\ UNCHANGED otherVars

\* Lines 161-163: no assets, or the lookup failed.
LookupNoAssets ==
    /\ BrickCalled
    /\ \E cmd \in LookupCommands :
           LET r == GetBrickAssets(cmd)
           IN  /\ ~r.raised
               /\ ~r.ok
               /\ asset_files' = r.assets
    /\ j' = 0
    /\ ReturnFalse
    /\ UNCHANGED otherVars

\* Lines 165-168: the lookup found assets; the for loop over them starts.
LookupFound ==
    /\ BrickCalled
    /\ \E cmd \in LookupCommands :
           LET r == GetBrickAssets(cmd)
           IN  /\ ~r.raised
               /\ r.ok
               /\ asset_files' = r.assets
    /\ j' = 1
    /\ pc' = "brick"
    /\ UNCHANGED <<catalog, log, brick_names, i, success_count, failure_count,
                   exit_status, raised, cleared, failed_idx, ret>>
    /\ UNCHANGED otherVars

\* Lines 169, 127-128: verify_asset_file looks the key up in bb.assets(..).
AssetResolved ==
    /\ pc = "brick"
    /\ j <= Len(asset_files)
    /\ resolve_calls' = Append(resolve_calls, BrickFile(asset_files[j]))

\* Line 128: bb.assets(..) or getattr raises; nothing catches it.
ResolveRaises ==
    /\ AssetResolved
    /\ Uncaught
    /\ UNCHANGED <<asset_files, j, called, verify_calls>>
    /\ UNCHANGED otherVars

\* Mutant: the failure is recorded but the loop goes on to the next asset.
AssetFails_KeepsGoing ==
    /\ AssetResolved
    /\ verify_calls' = Append(verify_calls,
                              CheckerCall(asset_files[j], brick_names[i], FALSE))
    /\ log' = RecordFailure(log, brick_names[i])
    /\ j' = j + 1
    /\ UNCHANGED <<catalog, pc, brick_names, i, success_count, failure_count,
                   exit_status, raised, cleared, asset_files, called, failed_idx,
                   ret>>
    /\ UNCHANGED otherVars

\* Lines 130-144, 170-172: the checker says no; record and return False.
AssetFails ==
    /\ AssetResolved
    /\ verify_calls' = Append(verify_calls,
                              CheckerCall(asset_files[j], brick_names[i], FALSE))
    /\ ReturnFalse
    /\ UNCHANGED <<asset_files, j, called>>
    /\ UNCHANGED otherVars

\* Lines 130-144, 173-174: the checker says yes; on to the next asset.
AssetPasses ==
    /\ AssetResolved
    /\ verify_calls' = Append(verify_calls,
                              CheckerCall(asset_files[j], brick_names[i], TRUE))
    /\ j' = j + 1
    /\ UNCHANGED <<catalog, log, pc, brick_names, i, success_count, failure_count,
                   exit_status, raised, cleared, asset_files, called, failed_idx,
                   ret>>
    /\ UNCHANGED otherVars

\* Lines 176-177, 203: every asset passed; main counts the success.
BrickPasses ==
    /\ pc = "brick"
    /\ j > Len(asset_files)
    /\ ret' = "true"
    /\ success_count' = success_count + 1
    /\ i' = i + 1
    /\ pc' = "loop"
    /\ UNCHANGED <<catalog, log, brick_names, failure_count, exit_status, raised,
                   cleared, asset_files, j, called, failed_idx, resolve_calls,
                   verify_calls>>
    /\ UNCHANGED otherVars

\* Lines 207-215: the summary and the exit status.
MainFinish ==
    /\ pc = "loop"
    /\ i > Len(brick_names)
    /\ exit_status' = IF failure_count > 0 THEN 1 ELSE 0
    /\ pc' = "exit"
    /\ UNCHANGED <<catalog, log, brick_names, i, success_count, failure_count,
                   raised, cleared, asset_files, j, called, failed_idx,
                   resolve_calls, verify_calls, ret>>
    /\ UNCHANGED otherVars

Init == InitMain /\ InitAssetsIdle /\ InitSqliteIdle /\ InitDispatchIdle

Next ==
    \/ MainMissingCatalog
    \/ MainStart
    \/ LookupRaises
    \/ LookupNoAssets
    \/ LookupFound
    \/ ResolveRaises
    \/ AssetFails
    \/ AssetPasses
    \/ BrickPasses
    \/ MainFinish

Spec == Init /\ [][Next]_vars

(***************************************************************************)
(* SpecAssets: get_brick_assets on every outcome of the lookup command.    *)
(***************************************************************************)
OutChars == {"x", " ", "\n"}

AssetCommands ==
    [kind : CommandKinds \ {"ok"}, stdout : {<<>>}]
        \cup [kind : {"ok"}, stdout : SeqsUpTo(OutChars, MaxOut)]

InitAssets ==
    /\ InitMain /\ InitSqliteIdle /\ InitDispatchIdle
    /\ a_cmd \in AssetCommands
    /\ a_pc = "call"
    /\ a_ret = <<>>

\* Lines 43-54: get_brick_assets returns a pair.
AssetsReturn ==
    /\ a_pc = "call"
    /\ LET r == GetBrickAssets(a_cmd)
       IN  /\ ~r.raised
           /\ a_ret' = [ok |-> r.ok, assets |-> r.assets]
    /\ a_pc' = "returned"
    /\ UNCHANGED <<a_cmd, mainVars, sqlVars, dispVars>>

\* Lines 28, 43: the exception of subprocess.run leaves get_brick_assets.
AssetsRaise ==
    /\ a_pc = "call"
    /\ GetBrickAssets(a_cmd).raised
    /\ a_pc' = "raised"
    /\ UNCHANGED <<a_cmd, a_ret, mainVars, sqlVars, dispVars>>

NextAssets == AssetsReturn \/ AssetsRaise

SpecAssets == InitAssets /\ [][NextAssets]_vars

(***************************************************************************)
(* SpecSqlite: verify_sqlite_file.  The file is a list of tables, each     *)
(* with its row count; sqlite3.connect and every cursor.execute may raise  *)
(* (no such file, not a database, a locked or corrupt page).               *)
(***************************************************************************)
Databases == [openable : BOOLEAN, tables : SeqsUpTo(0..MaxRows, MaxTables)]

InitSqlite ==
    /\ InitMain /\ InitAssetsIdle /\ InitDispatchIdle
    /\ q_db \in Databases
    /\ q_pc = "connect"
    /\ q_conn = "none"
    /\ q_k = 0
    /\ q_total = 0
    /\ q_ret = <<>>

\* Lines 103-104: except Exception: return False, "Failed to access ..."
SqlFailed ==
    /\ q_ret' = [ok |-> FALSE, msg |-> <<"failed">>]
    /\ q_pc' = "returned"

\* Lines 76-77: conn = sqlite3.connect(file_path)
SqlConnect ==
    /\ q_pc = "connect"
    /\ q_db.openable
    /\ q_conn' = "open"
    /\ q_pc' = "list"
    /\ UNCHANGED <<q_db, q_k, q_total, q_ret, mainVars, assetVars, dispVars>>

\* Line 76: sqlite3.connect raises; there is no connection.
SqlConnectRaises ==
    /\ q_pc = "connect"
    /\ ~q_db.openable
    /\ SqlFailed
    /\ UNCHANGED <<q_db, q_conn, q_k, q_total, mainVars, assetVars, dispVars>>

\* Lines 80-88: the table list is read; it has tables.
SqlListTables ==
    /\ q_pc = "list"
    /\ q_db.tables # <<>>
    /\ q_k' = 1
    /\ q_total' = 0
    /\ q_pc' = "count"
    /\ UNCHANGED <<q_db, q_conn, q_ret, mainVars, assetVars, dispVars>>

\* Lines 83-85: no tables; conn.close(); return False.
SqlNoTables ==
    /\ q_pc = "list"
    /\ q_db.tables = <<>>
    /\ q_conn' = "closed"
    /\ q_ret' = [ok |-> FALSE, msg |-> <<"no tables">>]
    /\ q_pc' = "returned"
    /\ UNCHANGED <<q_db, q_k, q_total, mainVars, assetVars, dispVars>>

\* Lines 80-81: the table listing raises.
SqlListRaises ==
    /\ q_pc = "list"
    /\ SqlFailed
    /\ UNCHANGED <<q_db, q_conn, q_k, q_total, mainVars, assetVars, dispVars>>

\* Lines 91-94: one COUNT(*) query.
SqlCount ==
    /\ q_pc = "count"
    /\ q_k <= Len(q_db.tables)
    /\ q_total' = q_total + q_db.tables[q_k]
    /\ q_k' = q_k + 1
    /\ UNCHANGED <<q_db, q_pc, q_conn, q_ret, mainVars, assetVars, dispVars>>

\* Lines 92-93: a COUNT(*) query raises.
SqlCountRaises ==
    /\ q_pc = "count"
    /\ q_k <= Len(q_db.tables)
    /\ SqlFailed
    /\ UNCHANGED <<q_db, q_conn, q_k, q_total, mainVars, assetVars, dispVars>>

\* Lines 96-101: conn.close(); return by total_rows.
SqlFinish ==
    /\ q_pc = "count"
    /\ q_k > Len(q_db.tables)
    /\ q_conn' = "closed"
    /\ q_ret' = [ok |-> q_total > 0, msg |-> <<"tables", Len(q_db.tables), q_total>>]
    /\ q_pc' = "returned"
    /\ UNCHANGED <<q_db, q_k, q_total, mainVars, assetVars, dispVars>>

NextSqlite ==
    \/ SqlConnect
    \/ SqlConnectRaises
    \/ SqlListTables
    \/ SqlNoTables
    \/ SqlListRaises
    \/ SqlCount
    \/ SqlCountRaises
    \/ SqlFinish

SpecSqlite == InitSqlite /\ [][NextSqlite]_vars

(***************************************************************************)
(* SpecDispatch: verify_asset_file on asset references of every shape.     *)
(***************************************************************************)
RefPrefixes == {<<>>, <<"k", ":">>}

RefStems == {<<"f">>, <<"G">>}

RefExtensions ==
    {<<".", "p", "a", "r", "q", "u", "e", "t">>, <<".", "P", "A", "R", "Q", "U", "E", "T">>, <<".", "P", "a", "r", "q", "u", "e", "t">>,
     <<".", "s", "q", "l", "i", "t", "e">>, <<".", "S", "Q", "L", "i", "t", "e">>, <<".", "s", "q", "l", "i", "t", "e", "3">>,
     <<".", "S", "Q", "L", "I", "T", "E", "3">>, <<".", "d", "b">>, <<".", "D", "B">>,
     <<".", "h", "d", "t">>, <<".", "H", "D", "T">>, <<".", "t", "x", "t">>,
     <<".", "c", "s", "v">>, <<>>, <<".", "p", "a", "r", "q", "u", "e", "t", ".", "d", "b">>,
     <<".", "d", "b", ".", "p", "a", "r", "q", "u", "e", "t">>, <<".", "h", "d", "t", ".", "g", "z">>, <<".", "s", "q", "l", "i", "t", "e", ".", "h", "d", "t">>,
     <<".", "d", "b", ":", "x">>, <<".", "p", "a", "r", "q", "u", "e", "t", ":">>, <<"p", "a", "r", "q", "u", "e", "t">>,
     <<".", "s", "q", "l", "i", "t", "e", "3", "3">>, <<".", "d", "b", "x">>, <<"_", "d", "b">>}

AssetRefs == {p \o st \o e : p \in RefPrefixes, st \in RefStems, e \in RefExtensions}

DispatchBrick == <<"b", "r">>

InitDispatch ==
    /\ InitMain /\ InitAssetsIdle /\ InitSqliteIdle
    /\ d_ref \in AssetRefs
    /\ d_pc = "call"
    /\ d_call = <<>>
    /\ d_ret = FALSE

\* Line 128: bb.assets(..) or getattr raises before any checker is chosen.
DispatchResolveRaises ==
    /\ d_pc = "call"
    /\ d_pc' = "raised"
    /\ UNCHANGED <<d_ref, d_call, d_ret, mainVars, assetVars, sqlVars>>

\* Lines 126-144: the checker is chosen, called, and its result returned.
DispatchChecks ==
    /\ d_pc = "call"
    /\ \E ok \in BOOLEAN :
           /\ d_call' = <<CheckerCall(d_ref, DispatchBrick, ok)>>
           /\ d_ret' = ok
    /\ d_pc' = "returned"
    /\ UNCHANGED <<d_ref, mainVars, assetVars, sqlVars>>

NextDispatch == DispatchResolveRaises \/ DispatchChecks

SpecDispatch == InitDispatch /\ [][NextDispatch]_vars

(***************************************************************************)
(* Properties.                                                             *)
(***************************************************************************)
\* The names of the bricks whose verify_brick call returned False in the
\* most recent run, in the order of the calls.
FailedNames == [k \in 1..Len(failed_idx) |-> brick_names[failed_idx[k]]]

Count(seq, x) == Cardinality({k \in DOMAIN seq : seq[k] = x})

IsPrefix(s, t) == Len(s) <= Len(t) /\ SubSeq(t, 1, Len(s)) = s

\* The catalog lines that are neither empty after trimming nor comment
\* lines starting with '#'.
CountedLines(lines) ==
    Cardinality({k \in DOMAIN lines :
                     Strip(lines[k]) # <<>> /\ Head(lines[k]) # "#"})

\* The run found its catalog and went through every brick without an
\* uncaught exception.
Completed == pc = "exit" /\ catalog.exists /\ ~raised

\* C1: a single brick's failure never aborts the run: whenever main() has
\* exited on a catalog that exists, whatever the lookups, the path
\* resolutions and the format checks did, verify_brick has been called for
\* every catalog entry.
C1_NoBrickAbortsRun ==
    (pc = "exit" /\ catalog.exists) => called = Len(brick_names)

\* C2: in every run whose catalog exists, when the run has finished
\* success_count + failure_count is the number of catalog lines that are
\* neither blank nor comments: every name was counted exactly once.
C2_EveryNameCountedOnce ==
    (pc = "exit" /\ catalog.exists) =>
        success_count + failure_count = CountedLines(catalog.lines)

\* C3 as stated: after any run, also one that ended on a missing catalog,
\* the failure log, if it exists, holds exactly the names that failed in
\* that most recent run.
C3_LogIsMostRecentRun ==
    pc = "exit" => (log.exists => log.lines = FailedNames)

\* C3 amended: during and after a run that found its catalog, the failure
\* log, if it exists, holds exactly the names that failed in that run and
\* nothing of an earlier run; a run that ends on a missing catalog leaves
\* the log as it found it.
C3_LogIsMostRecentFoundRun ==
    /\ [](catalog.exists => (log.exists => log.lines = FailedNames))
    /\ [][(pc' = "exit" /\ ~catalog'.exists) => log' = log]_vars

\* C3 witness: a run that removed the log of an earlier run has finished
\* with a failure of its own in the log.
C3_Witness ==
    /\ pc = "exit" /\ catalog.exists /\ cleared
    /\ log.exists /\ Len(log.lines) = 1 /\ Len(brick_names) = 2

\* C4 as stated: at the end of a run no brick name is on more than one line
\* of the failure log.
C4_NoNameTwice ==
    pc = "exit" =>
        \A k, l \in DOMAIN log.lines : k # l => log.lines[k] # log.lines[l]

\* C4 amended: in a run that found its catalog, a name is on no more lines
\* of the failure log than there are catalog entries with that name among
\* those verify_brick was called for: one line at most per catalog entry.
C4_AtMostOncePerEntry ==
    catalog.exists =>
        \A k \in DOMAIN log.lines :
            Count(log.lines, log.lines[k])
                <= Count(SubSeq(brick_names, 1, called), log.lines[k])

\* C4 witness: a catalog naming the same brick twice, both entries failed.
C4_Witness ==
    /\ pc = "exit" /\ catalog.exists
    /\ Len(brick_names) = 2 /\ brick_names[1] = brick_names[2]
    /\ Len(log.lines) = 2

\* C5: the exit status is 1 when the catalog is missing or a brick failed,
\* and 0 exactly when the catalog exists and the failure count is zero; an
\* empty catalog exits 0 with no failure log entries.
C5_ExitStatus ==
    pc = "exit" =>
        /\ exit_status \in {0, 1}
        /\ (~catalog.exists \/ failure_count > 0) => exit_status = 1
        /\ exit_status = 0 <=> (catalog.exists /\ failure_count = 0)
        /\ (catalog.exists /\ brick_names = <<>>) =>
               (exit_status = 0 /\ log.lines = <<>>)

\* C8: in verify_brick the path resolutions and the format checks follow
\* the resolver's order; a check is made only after every earlier asset of
\* the brick passed; the first failing asset records the failure and returns
\* False, no later asset checked; a brick without assets is recorded as
\* failed with no resolution and no check made.
C8_ShortCircuit ==
    /\ Len(verify_calls) <= Len(resolve_calls)
    /\ Len(resolve_calls) <= Len(asset_files)
    /\ \A k \in DOMAIN resolve_calls : resolve_calls[k] = BrickFile(asset_files[k])
    /\ \A k \in DOMAIN verify_calls :
           /\ verify_calls[k].ref = asset_files[k]
           /\ k < Len(verify_calls) => verify_calls[k].ok
    /\ (verify_calls # <<>> /\ ~verify_calls[Len(verify_calls)].ok) =>
           /\ pc # "brick"
           /\ ret = "false"
           /\ log.lines # <<>> /\ log.lines[Len(log.lines)] = brick_names[i - 1]
    /\ (ret = "false" /\ asset_files = <<>>) =>
           /\ resolve_calls = <<>> /\ verify_calls = <<>>
           /\ log.lines # <<>> /\ log.lines[Len(log.lines)] = brick_names[i - 1]
    /\ (pc = "brick" \/ verify_calls # <<>>) => asset_files # <<>>

\* C8 witness: the first of two assets failed and the call returned False
\* with the second asset neither resolved nor checked.
C8_Witness ==
    /\ ret = "false" /\ pc = "loop"
    /\ Len(asset_files) = 2
    /\ Len(verify_calls) = 1 /\ Len(resolve_calls) = 1
    /\ ~verify_calls[1].ok

\* What C9 says of the log in one state: its lines are the failed names, in
\* catalog order, one per call that returned False, and after a completed
\* run they are failure_count many.
LogFollowsCatalog ==
    /\ log.lines = FailedNames
    /\ \A k, l \in DOMAIN failed_idx : k < l => failed_idx[k] < failed_idx[l]
    /\ Completed => Len(log.lines) = failure_count

\* C9 as stated: at every point of every run the lines of the failure log
\* are the failed brick names in catalog order, one per verify_brick call
\* that returned False.
C9_LogOrderedInEveryRun == LogFollowsCatalog

\* C9 amended: at every point of a run that found its catalog the lines of
\* the failure log are the failed brick names in catalog order, one per
\* verify_brick call that returned False; while the run goes on a line is
\* never removed or changed; after a completed run the log has
\* failure_count lines.
C9_LogOrderedInFoundRun ==
    /\ [](catalog.exists => LogFollowsCatalog)
    /\ [][(pc \in {"loop", "brick"}) => IsPrefix(log.lines, log'.lines)]_vars

\* C9 witness: a completed run in which two different bricks failed.
C9_Witness ==
    /\ Completed
    /\ failure_count = 2
    /\ Len(log.lines) = 2 /\ log.lines[1] # log.lines[2]

\* C6: get_brick_assets never raises; a failed lookup gives (False, []);
\* otherwise it gives the non-blank output lines in the tool's order, ok
\* exactly when there is at least one.
C6_LookupNeverRaises ==
    /\ a_pc # "raised"
    /\ a_pc = "returned" =>
           IF a_cmd.kind # "ok"
           THEN a_ret = [ok |-> FALSE, assets |-> <<>>]
           ELSE LET out == Split(a_cmd.stdout, "\n")
                    kept == {k \in DOMAIN out : Strip(out[k]) # <<>>}
                IN  /\ Len(a_ret.assets) = Cardinality(kept)
                    /\ \A n \in DOMAIN a_ret.assets :
                           \E k \in kept :
                               /\ Cardinality({m \in kept : m <= k}) = n
                               /\ a_ret.assets[n] = Strip(out[k])
                    /\ a_ret.ok <=> kept # {}

\* C7: whenever verify_sqlite_file has returned, a connection it opened has
\* been closed.
C7_ConnectionReleased == q_pc = "returned" => q_conn # "open"

\* Case-insensitive suffix test, character by character.
HasSuffixCI(s, suf) ==
    /\ Len(suf) <= Len(s)
    /\ \A k \in DOMAIN suf : LowerChar(s[Len(s) - Len(suf) + k]) = suf[k]

\* The part of a reference before its first ':' (all of it without one).
BeforeColon(s) ==
    LET colons == {k \in DOMAIN s : s[k] = ":"}
    IN  IF colons = {} THEN s
        ELSE SubSeq(s, 1, (CHOOSE k \in colons : \A m \in colons : k <= m) - 1)

\* C10: the checker is chosen by the lower-cased suffix of the original
\* reference, .parquet first, then .sqlite/.sqlite3/.db, then .hdt, then the
\* generic check; the three format checkers get the path resolved from the
\* part of the reference before ':', the generic check gets the original
\* reference.
C10_Dispatch ==
    d_pc = "returned" =>
        LET c == d_call[1]
            isParquet == HasSuffixCI(d_ref, ParquetSuffix)
            isSqlite == \E suf \in SqliteSuffixes : HasSuffixCI(d_ref, suf)
            isHdt == HasSuffixCI(d_ref, HdtSuffix)
            resolved == BrickPath(DispatchBrick, BeforeColon(d_ref))
        IN  /\ Len(d_call) = 1
            /\ c.ref = d_ref
            /\ isParquet => c.kind = "parquet"
            /\ (~isParquet /\ isSqlite) => c.kind = "sqlite"
            /\ (~isParquet /\ ~isSqlite /\ isHdt) => c.kind = "hdt"
            /\ (~isParquet /\ ~isSqlite /\ ~isHdt) => c.kind = "generic"
            /\ c.kind # "generic" => c.arg = resolved
            /\ c.kind = "generic" => c.arg = d_ref
            /\ d_ret = c.ok

\* C10 witness: a reference with a key before ':' and an unrecognised
\* suffix went to the generic check, which was given the reference itself.
C10_Witness ==
    /\ d_pc = "returned"
    /\ d_ref = <<"k", ":", "f", ".", "t", "x", "t">>
    /\ d_call[1].kind = "generic"
    /\ d_call[1].arg = d_ref

====
